---- MODULE Spec2Model ----
(***************************************************************************)
(* Model of banana-eye: the Daft batch pipeline of pipeline.py (schema     *)
(* check, per-partition row loop, artifact generation with fallback), the  *)
(* unguarded process_row_to_image of the same file, the two external-call  *)
(* helpers of main.py with the FastAPI endpoint that calls them, and the   *)
(* two Flask handlers of app.py that submit a batch and read it back.      *)
(*                                                                         *)
(* Python strings are TLA+ strings, built with \o as the f-strings build   *)
(* them.  A float is modelled by its number of tenths (377 is 37.7), an    *)
(* int by itself; str() of either is computed by FormatValue.              *)
(***************************************************************************)
EXTENDS Integers, Sequences, FiniteSets, TLC

\* ------------------------------------------------------------------------
\* Bounds of the model
\* ------------------------------------------------------------------------
MaxRows == 2
MaxPartitions == 2

\* ------------------------------------------------------------------------
\* Values and their formatting
\* ------------------------------------------------------------------------
FloatV(tenths) == [ty |-> "float", v |-> tenths]
IntV(n) == [ty |-> "int", v |-> n]

Abs(n) == IF n < 0 THEN -n ELSE n

\* str() of a Python number as an f-string renders it: "50" for the int 50,
\* "37.7" for the float 37.7, "-122.4" for the float -122.4.
FormatValue(x) ==
  IF x.ty = "int"
    THEN ToString(x.v)
    ELSE (IF x.v < 0 THEN "-" ELSE "")
           \o ToString(Abs(x.v) \div 10) \o "." \o ToString(Abs(x.v) % 10)

StartsWith(s, prefix) ==
  /\ Len(s) >= Len(prefix)
  /\ SubSeq(s, 1, Len(prefix)) = prefix

Contains(str, sub) ==
  \E k \in 1..(Len(str) - Len(sub) + 1) : SubSeq(str, k, k + Len(sub) - 1) = sub

\* Path(a) / b
JoinPath(dir, name) == dir \o "/" \o name

Row(b, lat, lon, alt, yr) ==
  [batchID |-> b, lattitude |-> lat, longitude |-> lon, altitude |-> alt, year |-> yr]

BatchIDs == {"web_ab12cd34", "batch_001"}
Years == {1850, 1950, 2020}

\* The rows a table is drawn from: one coordinate, one row per batch and year
\* (the rows of one batch share batchID, latitude, longitude and altitude).
RowValues ==
  {r \in {Row(b, FloatV(377), FloatV(-1224), IntV(50), IntV(y)) : b \in BatchIDs, y \in Years} :
     r.batchID = "batch_001" <=> r.year.v = 1950}

RECURSIVE SeqsUpTo(_, _)
SeqsUpTo(S, n) ==
  IF n = 0 THEN {<<>>}
  ELSE LET shorter == SeqsUpTo(S, n - 1)
       IN shorter \cup {Append(s, x) : s \in {t \in shorter : Len(t) = n - 1}, x \in S}

Tables == SeqsUpTo(RowValues, MaxRows)

\* ------------------------------------------------------------------------
\* Exceptions and their str()
\* ------------------------------------------------------------------------
Exc(type, status_code, detail) == [type |-> type, status_code |-> status_code, detail |-> detail]
NoExc == Exc("None", 0, "")

HTTPException(status_code, detail) == Exc("HTTPException", status_code, detail)

\* str(e): an HTTPException renders "<status_code>: <detail>", every other
\* exception renders its message.
StrExc(e) ==
  IF e.type = "HTTPException"
    THEN ToString(e.status_code) \o ": " \o e.detail
    ELSE e.detail

\* ------------------------------------------------------------------------
\* External services
\* ------------------------------------------------------------------------
ZOOM == 14
WIDTH == 512
HEIGHT == 512

\* The provider's image for a static-image request (an opaque byte blob,
\* identified by the request that produced it).
MapboxContent(lat, lon, zoom, width, height) ==
  "JPEG<" \o FormatValue(lon) \o "," \o FormatValue(lat) \o "," \o ToString(zoom)
          \o "/" \o ToString(width) \o "x" \o ToString(height) \o ">"

\* What requests.get(url) can come back with: a response or an exception.
MapboxResponses(lat, lon, zoom, width, height) ==
  { [kind |-> "response", status_code |-> 200,
     body |-> MapboxContent(lat, lon, zoom, width, height)],
    [kind |-> "response", status_code |-> 401, body |-> "Not Authorized"],
    [kind |-> "exception", status_code |-> 0, body |-> "Connection aborted"] }

\* The generative service's image for (base image, prompt built from year and
\* altitude).
GeminiContent(image_bytes, year, altitude) ==
  "PNG<" \o FormatValue(year) \o "," \o FormatValue(altitude) \o "," \o image_bytes \o ">"

\* The generative service's disposition towards a request, fixed per year for
\* a check: it blocks 1850, finds no image for 1950 and renders every other year.
ServiceDisposition(year) ==
  IF year.v = 1850 THEN "block" ELSE IF year.v = 1950 THEN "no_image" ELSE "image"

IsImage(data) ==
  /\ StartsWith(data, "JPEG<") \/ StartsWith(data, "PNG<")
  /\ SubSeq(data, Len(data), Len(data)) = ">"

\* ------------------------------------------------------------------------
\* State
\* ------------------------------------------------------------------------
VARIABLES
  program,         \* which entry point runs: "pipeline" (pipeline.py) or "api" (main.py)
  columns,         \* df.column_names of the input table
  table,           \* the rows of the input table, in order
  mapbox_token,    \* os.getenv("MAPBOX_ACCESS_TOKEN") is set
  gemini_api_key,  \* main.gemini_api_key is set
  pc,              \* where process_dataframe_pipeline and its caller are
  raised,          \* the exception process_dataframe_pipeline raised to its caller
  dirs,            \* the directories that exist
  files,           \* the files that exist: path -> content
  part,            \* the partition of each row, chosen by the runtime
  th,              \* per thread (a partition's UDF call, or the endpoint): locals
  result_paths,    \* per partition: result_paths of generate_image_path_udf
  output,          \* the image_path column of the materialised result
  request,         \* the AerialViewRequest the endpoint is serving
  response,        \* the endpoint's HTTP response
  report,          \* app.py: the JSON body /process answered with
  batch_info,      \* app.py: the JSON body /api/batch_info/<batch_id> answered with
  hist             \* per row: what happened to it (history, read by no action)

vars == <<program, columns, table, mapbox_token, gemini_api_key, pc, raised, dirs,
          files, part, th, result_paths, output, request, response, report,
          batch_info, hist>>

Partitions == 1..MaxPartitions
EP == 0
\* The thread of a direct call of process_row_to_image.
RP == MaxPartitions + 1
Threads == Partitions \cup {EP, RP}

ColumnNames == {"batchID", "lattitude", "latitude", "longitude", "altitude", "year"}

NoBytes == ""
NoReply == [none |-> TRUE]
IdleThread == [pc |-> "idle", cur |-> 0, e |-> NoExc, sat |-> NoBytes, enh |-> NoBytes,
               reply |-> NoReply]
NoHist == [fetch |-> "none", enhance |-> "none", written |-> 0,
           e |-> NoExc, boundary |-> NoExc]
NoRequest == [latitude |-> FloatV(0), longitude |-> FloatV(0), text_prompt |-> "",
              year |-> IntV(0), altitude |-> IntV(0),
              zoom |-> 0, width |-> 0, height |-> 0]
NoResponse == [status_code |-> 0, content |-> ""]
NoReport == [none |-> TRUE]

\* The schemas a run starts with: any of the names, with at most one spelling
\* of the latitude column.
Schemas == {c \in SUBSET ColumnNames : ~({"lattitude", "latitude"} \subseteq c)}

\* A pipeline run and a direct call of process_row_to_image start with
\* GEMINI_API_KEY set; the endpoint is served with and without it.  A direct
\* call may find the directories of an earlier run.
Init ==
  /\ program \in {"pipeline", "api", "direct"}
  /\ columns \in IF program = "pipeline" THEN Schemas ELSE {{}}
  /\ table \in CASE program = "pipeline" -> Tables
               [] program = "direct" -> {<<r>> : r \in RowValues}
               [] OTHER -> {<<>>}
  /\ gemini_api_key \in IF program = "api" THEN BOOLEAN ELSE {TRUE}
  /\ dirs \in IF program = "direct"
               THEN {{}, {"output"}, {"output", "output/" \o table[1].batchID}}
               ELSE {{}}
  /\ pc = CASE program = "pipeline" -> "start"
            [] program = "direct" -> "row_start"
            [] OTHER -> "serving"
  /\ mapbox_token \in BOOLEAN
  /\ raised = NoExc
  /\ files = [q \in {} |-> ""]
  /\ part = <<>>
  /\ th = [t \in Threads |-> IdleThread]
  /\ result_paths = [p \in Partitions |-> <<>>]
  /\ output = <<>>
  /\ request = NoRequest
  /\ response = NoResponse
  /\ report = NoReport
  /\ batch_info = NoReport
  /\ hist = [i \in 1..Len(table) |-> NoHist]

\* ------------------------------------------------------------------------
\* process_dataframe_pipeline
\* ------------------------------------------------------------------------
required_columns == <<"batchID", "lattitude", "longitude", "altitude", "year">>

\* Mutant: the check stops at the first column it misses.
missing_columns_First(df_columns) ==
  LET all == SelectSeq(required_columns, LAMBDA col_name : col_name \notin df_columns)
  IN IF all = <<>> THEN <<>> ELSE <<Head(all)>>

\* [col_name for col_name in required_columns if col_name not in df_columns]
missing_columns(df_columns) ==
  SelectSeq(required_columns, LAMBDA col_name : col_name \notin df_columns)

\* str() of a list of strings: ['a', 'b']
RECURSIVE ReprItems(_)
ReprItems(names) ==
  IF names = <<>> THEN ""
  ELSE "'" \o Head(names) \o "'"
         \o (IF Tail(names) = <<>> THEN "" ELSE ", " \o ReprItems(Tail(names)))

ReprList(names) == "[" \o ReprItems(names) \o "]"

OUTPUT_ROOT == "output"

\* Lines 133-139: the schema check.
SchemaCheck ==
  /\ program = "pipeline"
  /\ pc = "start"
  /\ LET missing == missing_columns(columns)
     IN IF missing # <<>>
          THEN /\ pc' = "raised"
               /\ raised' = Exc("ValueError", 0,
                                "Missing required columns: " \o ReprList(missing))
          ELSE /\ pc' = "checked"
               /\ raised' = raised
  /\ UNCHANGED <<report, batch_info, program, columns, table, mapbox_token, gemini_api_key, dirs, files,
                 part, th, result_paths, output, request, response, hist>>

OSError(errno, strerror, filename) ==
  Exc("OSError", 0, "[Errno " \o ToString(errno) \o "] " \o strerror \o ": '" \o filename \o "'")

CWD == "."

\* Mutant: mkdir without exist_ok, which raises when the directory is there.
MkdirOutcome_NoExistOk(ds, path, parent, parents, exist_ok, denied) ==
  IF denied
    THEN [dirs |-> ds, exc |-> OSError(13, "Permission denied", path)]
  ELSE IF path \in ds
    THEN [dirs |-> ds, exc |-> [OSError(17, "File exists", path) EXCEPT !.type = "FileExistsError"]]
    ELSE [dirs |-> (ds \cup {parent, path}) \ {CWD}, exc |-> NoExc]

\* Path(path).mkdir(parents=parents, exist_ok=exist_ok) on the directories ds:
\* the directories afterwards and the exception raised, if any.  denied: the
\* operating system refuses the operation.
MkdirOutcome(ds, path, parent, parents, exist_ok, denied) ==
  IF denied
    THEN [dirs |-> ds, exc |-> OSError(13, "Permission denied", path)]
  ELSE IF path \in ds
    THEN IF exist_ok
           THEN [dirs |-> ds, exc |-> NoExc]
           ELSE [dirs |-> ds,
                 exc |-> [OSError(17, "File exists", path) EXCEPT !.type = "FileExistsError"]]
  ELSE IF parent # CWD /\ parent \notin ds
    THEN IF parents
           THEN [dirs |-> ds \cup {parent, path}, exc |-> NoExc]
           ELSE [dirs |-> ds,
                 exc |-> [OSError(2, "No such file or directory", path)
                            EXCEPT !.type = "FileNotFoundError"]]
    ELSE [dirs |-> ds \cup {path}, exc |-> NoExc]

\* The ways the runtime may split N rows into partitions: contiguous runs of
\* rows, numbered in row order.
Partitionings(N) ==
  {f \in [1..N -> Partitions] :
     /\ N > 0 => f[1] = 1
     /\ \A i \in 1..(N - 1) : f[i + 1] \in {f[i], f[i] + 1}}

\* The rows the partition has still to process after row i, in order.
RowsAfter(f, p, i) == {j \in DOMAIN f : j > i /\ f[j] = p}

Min(S) == CHOOSE x \in S : \A y \in S : x <= y

\* The thread of partition p as it enters the loop body for the first row
\* after row i, or as it returns when there is none.
NextRowThread(f, p, i) ==
  IF RowsAfter(f, p, i) = {}
    THEN [IdleThread EXCEPT !.pc = "returned"]
    ELSE [IdleThread EXCEPT !.pc = "mkdir", !.cur = Min(RowsAfter(f, p, i))]

\* Lines 141-158: the output root is created and the (lazy) result table is
\* returned to the caller; no row has been processed yet.
MakeOutputDir ==
  /\ program = "pipeline"
  /\ pc = "checked"
  /\ \E denied \in BOOLEAN :
       LET made == MkdirOutcome(dirs, OUTPUT_ROOT, CWD, FALSE, TRUE, denied)
       IN /\ dirs' = made.dirs
          /\ raised' = made.exc
          /\ pc' = IF made.exc = NoExc THEN "returned" ELSE "raised"
  /\ UNCHANGED <<report, batch_info, program, columns, table, mapbox_token, gemini_api_key, files,
                 part, th, result_paths, output, request, response, hist>>

\* The caller materialises the result (to_pandas, collect): the runtime splits
\* the rows into partitions and calls generate_image_path_udf on each.
Collect ==
  /\ program = "pipeline"
  /\ pc = "returned"
  /\ \E f \in Partitionings(Len(table)) :
       /\ part' = f
       /\ th' = [t \in Threads |->
                   IF t = EP THEN th[t] ELSE NextRowThread(f, t, 0)]
  /\ pc' = "running"
  /\ UNCHANGED <<report, batch_info, program, columns, table, mapbox_token, gemini_api_key, raised, dirs,
                 files, result_paths, output, request, response, hist>>

RECURSIVE ConcatUpTo(_, _)
ConcatUpTo(rp, p) == IF p = 0 THEN <<>> ELSE ConcatUpTo(rp, p - 1) \o rp[p]

RECURSIVE ConcatDownFrom(_, _)
ConcatDownFrom(rp, p) == IF p = 0 THEN <<>> ELSE rp[p] \o ConcatDownFrom(rp, p - 1)

\* Mutant: the partitions' arrays are assembled in the order the partitions
\* finish rather than in row order (here: last partition first).
MergeColumn_Unordered(rp) == ConcatDownFrom(rp, MaxPartitions)

\* The runtime assembles the partitions' arrays into the image_path column.
MergeColumn(rp) == ConcatUpTo(rp, MaxPartitions)

Merge ==
  /\ program = "pipeline"
  /\ pc = "running"
  /\ \A p \in Partitions : th[p].pc = "returned"
  /\ output' = MergeColumn(result_paths)
  /\ pc' = "done"
  /\ UNCHANGED <<report, batch_info, program, columns, table, mapbox_token, gemini_api_key, raised, dirs,
                 files, part, th, result_paths, request, response, hist>>

\* ------------------------------------------------------------------------
\* generate_image_path_udf: one row of one partition
\* ------------------------------------------------------------------------
\* Path(f"output/{bid}")
BatchDir(bid) == JoinPath(OUTPUT_ROOT, bid)

\* Mutant: the filename leaves the year out.
Filename_NoYear(lat, lon, alt, yr) ==
  "img_" \o FormatValue(lat) \o "_" \o FormatValue(lon) \o "_" \o FormatValue(alt) \o ".png"

\* f"img_{lat}_{lon}_{alt}_{yr}.png"
Filename(lat, lon, alt, yr) ==
  "img_" \o FormatValue(lat) \o "_" \o FormatValue(lon) \o "_" \o FormatValue(alt)
         \o "_" \o FormatValue(yr) \o ".png"

\* str(batch_dir / filename)
ImagePath(r) ==
  JoinPath(BatchDir(r.batchID), Filename(r.lattitude, r.longitude, r.altitude, r.year))

\* f"ERROR: {str(e)}"
ErrorResult(e) == "ERROR: " \o StrExc(e)

\* Mutant: the row's path is appended whether or not an exception arrived.
RowResult_AlwaysPath(image_path, e) == image_path

\* Lines 112-116: what the loop body appends once create_enhanced_image has
\* returned (e is NoExc) or has raised e.
RowResult(image_path, e) == IF e = NoExc THEN image_path ELSE ErrorResult(e)

\* Mutant: the fallback payload without the line of the caught exception.
DiagnosticText_NoError(lat, lon, alt, year, e) ==
  "Enhanced Aerial View Data:\n"
    \o "Latitude: " \o FormatValue(lat) \o "\n"
    \o "Longitude: " \o FormatValue(lon) \o "\n"
    \o "Altitude: " \o FormatValue(alt) \o "m\n"
    \o "Year: " \o FormatValue(year) \o "\n"

\* The fallback payload of create_enhanced_image, lines 76-81.
DiagnosticText(lat, lon, alt, year, e) ==
  "Enhanced Aerial View Data:\n"
    \o "Latitude: " \o FormatValue(lat) \o "\n"
    \o "Longitude: " \o FormatValue(lon) \o "\n"
    \o "Altitude: " \o FormatValue(alt) \o "m\n"
    \o "Year: " \o FormatValue(year) \o "\n"
    \o "Error: " \o StrExc(e) \o "\n"

\* Mutant: every row writes into one shared file, so a write replaces the
\* content of the other rows' files as well.
WriteTo_Shared(fs, path, data) == [q \in DOMAIN fs \cup {path} |-> data]

\* Mutant: a write that creates no file.
WriteTo_Discard(fs, path, data) == fs

\* Mutant: the file is opened for appending, so a write adds to what is there.
WriteTo_Append(fs, path, data) ==
  [q \in DOMAIN fs \cup {path} |->
     IF q = path THEN (IF path \in DOMAIN fs THEN fs[path] ELSE "") \o data ELSE fs[q]]

\* open(path, mode) creates or truncates the file, f.write/close replace its content.
WriteTo(fs, path, data) ==
  [q \in DOMAIN fs \cup {path} |-> IF q = path THEN data ELSE fs[q]]

\* What a write that fails partway leaves behind: a part of the payload.
Truncations(data) == {SubSeq(data, 1, Len(data) \div 2)}

\* result_paths.append(result), and on to the next row of the partition.
AppendResult(rp, p, result) == [rp EXCEPT ![p] = Append(@, result)]

\* Mutant: a row that ends with an error ends its partition's loop.
FinishRow_Abort(p, result) ==
  /\ result_paths' = AppendResult(result_paths, p, result)
  /\ th' = [th EXCEPT ![p] = IF StartsWith(result, "ERROR:")
                               THEN [IdleThread EXCEPT !.pc = "returned"]
                               ELSE NextRowThread(part, p, th[p].cur)]

FinishRow(p, result) ==
  /\ result_paths' = AppendResult(result_paths, p, result)
  /\ th' = [th EXCEPT ![p] = NextRowThread(part, p, th[p].cur)]

\* ------------------------------------------------------------------------
\* main.py: the two external calls, as called by a partition's row or by
\* the endpoint.  A thread's local effects are computed on a record
\* [thr, hist, response] and installed by the action that runs the thread up
\* to its next external call or file-system operation.
\* ------------------------------------------------------------------------
Local(t) == [thr |-> th[t], hist |-> hist, response |-> response]

Install(t, m) ==
  /\ th' = [th EXCEPT ![t] = m.thr]
  /\ hist' = m.hist
  /\ response' = m.response

\* The arguments the thread's caller passes.
ArgLat(t) == IF t = EP THEN request.latitude ELSE table[th[t].cur].lattitude
ArgLon(t) == IF t = EP THEN request.longitude ELSE table[th[t].cur].longitude
ArgAlt(t) == IF t = EP THEN request.altitude ELSE table[th[t].cur].altitude
ArgYear(t) == IF t = EP THEN request.year ELSE table[th[t].cur].year
ArgZoom(t) == IF t = EP THEN request.zoom ELSE ZOOM
ArgWidth(t) == IF t = EP THEN request.width ELSE WIDTH
ArgHeight(t) == IF t = EP THEN request.height ELSE HEIGHT

\* The history of the row the thread is processing (the endpoint has none).
Note(t, m, field, value) ==
  IF t = EP THEN m ELSE [m EXCEPT !.hist[m.thr.cur][field] = value]

\* Mutant: the endpoint answers with the status code the exception carries.
RaiseIn_OwnStatus(t, m, exc) ==
  [m EXCEPT !.thr.pc = IF t = EP THEN "responded" ELSE "fallback",
            !.thr.e = exc,
            !.response = IF t = EP
                           THEN [status_code |-> IF exc.type = "HTTPException"
                                                   THEN exc.status_code ELSE 500,
                                 content |-> StrExc(exc)]
                           ELSE @]

\* An exception raised inside the caller's try block: create_enhanced_image
\* catches it and goes to its fallback (pipeline.py line 72); the endpoint
\* catches it and answers HTTP 500 with str(e) (main.py lines 211-213).
RaiseIn(t, m, exc) ==
  [m EXCEPT !.thr.pc = IF t = EP THEN "responded" ELSE "fallback",
            !.thr.e = exc,
            !.response = IF t = EP
                           THEN [status_code |-> 500, content |-> StrExc(exc)]
                           ELSE @]

\* get_mapbox_image, lines 49-58: the credential check, then the request.
MapboxCall(t, m) ==
  IF ~mapbox_token
    THEN Note(t, RaiseIn(t, m, HTTPException(500, "Mapbox access token not configured")),
              "fetch", "raised")
    ELSE [m EXCEPT !.thr.pc = "mapbox_wait"]

\* Mutant: the body of the answer is returned whatever its status.
MapboxReturn_AnyStatus(t, m, r) ==
  IF r.kind = "exception"
    THEN Note(t, RaiseIn(t, m, Exc("ConnectionError", 0, r.body)), "fetch", "raised")
    ELSE Note(t, [m EXCEPT !.thr.pc = "gen", !.thr.sat = r.body], "fetch", "ok")

\* get_mapbox_image, lines 58-66: what requests.get came back with.
MapboxReturn(t, m, r) ==
  IF r.kind = "exception"
    THEN Note(t, RaiseIn(t, m, Exc("ConnectionError", 0, r.body)), "fetch", "raised")
  ELSE IF r.status_code # 200
    THEN Note(t, RaiseIn(t, m, HTTPException(500, "Failed to fetch map image: " \o r.body)),
              "fetch", "raised")
    ELSE Note(t, [m EXCEPT !.thr.pc = "gen", !.thr.sat = r.body], "fetch", "ok")

\* def generate_enhanced_aerial_view(image_bytes, text_prompt, year, altitude)
GenerateParams == <<"image_bytes", "text_prompt", "year", "altitude">>

\* The keyword arguments of the call: pipeline.py lines 59-63, main.py lines 196-201.
PassedKwargs(t) ==
  IF t = EP THEN {"image_bytes", "text_prompt", "year", "altitude"}
            ELSE {"image_bytes", "year", "altitude"}

\* Python's argument binding: the required parameters the call leaves out.
MissingArgs(params, kwargs) == SelectSeq(params, LAMBDA a : a \notin kwargs)

RECURSIVE ReprArgs(_)
ReprArgs(names) ==
  IF Len(names) = 1 THEN "'" \o names[1] \o "'"
  ELSE IF Len(names) = 2 THEN "'" \o names[1] \o "' and '" \o names[2] \o "'"
  ELSE "'" \o Head(names) \o "', " \o ReprArgs(Tail(names))

MissingArgsError(fname, names) ==
  Exc("TypeError", 0,
      fname \o "() missing " \o ToString(Len(names)) \o " required positional argument"
            \o (IF Len(names) = 1 THEN "" ELSE "s") \o ": " \o ReprArgs(names))

\* The call of generate_enhanced_aerial_view and its lines 70-100: the
\* arguments are bound, the key is checked, the request is sent.
GenCall(t, m) ==
  LET missing == MissingArgs(GenerateParams, PassedKwargs(t))
  IN IF missing # <<>>
       THEN Note(t, RaiseIn(t, m, MissingArgsError("generate_enhanced_aerial_view", missing)),
                 "enhance", "raised")
     ELSE IF ~gemini_api_key
       THEN Note(t, RaiseIn(t, m, HTTPException(500, "Gemini API key not configured")),
                 "enhance", "raised")
       ELSE Note(t, [m EXCEPT !.thr.pc = "gen_wait"], "enhance", "called")

\* A part of a generate_content response.
ImagePart(data) == [inline_data |-> TRUE, mime_type |-> "image/png", data |-> data]
TextPart == [inline_data |-> FALSE, mime_type |-> "", data |-> ""]

Reply(fails, block_reason, parts) ==
  [fails |-> fails, block_reason |-> block_reason, parts |-> parts]

\* What model.generate_content can come back with.
GeminiResponses(image_bytes, year, altitude) ==
  LET img == ImagePart(GeminiContent(image_bytes, year, altitude))
  IN { Reply(FALSE, "", <<img>>), Reply(FALSE, "", <<TextPart, img>>),
       Reply(FALSE, "", <<>>), Reply(FALSE, "", <<TextPart>>),
       Reply(FALSE, "SAFETY", <<>>), Reply(FALSE, "SAFETY", <<img>>),
       Reply(TRUE, "", <<>>) }

IsImagePart(pt) == pt.inline_data /\ StartsWith(pt.mime_type, "image/")

HasImagePart(parts) == \E k \in 1..Len(parts) : IsImagePart(parts[k])

\* The service's answer as a disposition.
ReplyKind(r) ==
  IF r.fails THEN "exception"
  ELSE IF r.block_reason # "" THEN "block"
  ELSE IF HasImagePart(r.parts) THEN "image" ELSE "no_image"

\* Lines 121-126: the data of the first part that carries an image.
RECURSIVE FirstImageData(_)
FirstImageData(parts) ==
  IF IsImagePart(Head(parts)) THEN Head(parts).data ELSE FirstImageData(Tail(parts))

\* Mutant: the parts are searched for an image before the block reason is
\* looked at.
GenReturn_ImageFirst(t, m, r) ==
  LET got == [m EXCEPT !.thr.reply = r]
  IN IF r.fails
       THEN Note(t, RaiseIn(t, got, HTTPException(500, "Failed to generate enhanced aerial view: "
                                                        \o "503 Service Unavailable")),
                 "enhance", "raised")
     ELSE IF HasImagePart(r.parts)
       THEN Note(t, [got EXCEPT !.thr.pc = IF t = EP THEN "responded" ELSE "write",
                                !.thr.enh = FirstImageData(r.parts),
                                !.response = IF t = EP
                                               THEN [status_code |-> 200,
                                                     content |-> FirstImageData(r.parts)]
                                               ELSE @],
                 "enhance", "image")
       ELSE Note(t, RaiseIn(t, got, HTTPException(400, "Image generation blocked by API. Reason: "
                                                        \o r.block_reason)),
                 "enhance", "raised")

\* generate_enhanced_aerial_view, lines 100-136, on the service's answer
\* (kept in the local variable response, here reply).
GenReturn(t, m, r) ==
  LET got == [m EXCEPT !.thr.reply = r]
  IN IF r.fails
       THEN Note(t, RaiseIn(t, got, HTTPException(500, "Failed to generate enhanced aerial view: "
                                                        \o "503 Service Unavailable")),
                 "enhance", "raised")
     ELSE IF r.block_reason # ""
       THEN Note(t, RaiseIn(t, got, HTTPException(400, "Image generation blocked by API. Reason: "
                                                        \o r.block_reason)),
                 "enhance", "raised")
     ELSE LET data == IF HasImagePart(r.parts) THEN FirstImageData(r.parts) ELSE m.thr.sat
          IN Note(t, [got EXCEPT !.thr.pc = IF t = EP THEN "responded" ELSE "write",
                                 !.thr.enh = data,
                                 !.response = IF t = EP
                                                THEN [status_code |-> 200, content |-> data]
                                                ELSE @],
                  "enhance", IF HasImagePart(r.parts) THEN "image" ELSE "no_image")

\* ------------------------------------------------------------------------
\* generate_image_path_udf and create_enhanced_image: the steps of a row
\* ------------------------------------------------------------------------
\* Lines 103-112 and 48-56: the batch directory is created (parents=True,
\* exist_ok=True), the path is computed and create_enhanced_image calls
\* get_mapbox_image; an OSError of mkdir goes to the row's except clause.
Mkdir(p) ==
  /\ p \in Partitions
  /\ th[p].pc = "mkdir"
  /\ LET batch_dir == BatchDir(table[th[p].cur].batchID)
     IN \E denied \in BOOLEAN :
          LET made == MkdirOutcome(dirs, batch_dir, OUTPUT_ROOT, TRUE, TRUE, denied)
          IN /\ dirs' = made.dirs
             /\ IF made.exc = NoExc
                  THEN /\ Install(p, MapboxCall(p, Local(p)))
                       /\ result_paths' = result_paths
                  ELSE /\ FinishRow(p, ErrorResult(made.exc))
                       /\ hist' = [hist EXCEPT ![th[p].cur].boundary = made.exc]
                       /\ response' = response
  /\ UNCHANGED <<report, batch_info, program, columns, table, mapbox_token, gemini_api_key, pc, raised,
                 files, part, output, request>>

\* requests.get returns or raises; on an image the caller goes on to call
\* generate_enhanced_aerial_view.
MapboxResponds(t) ==
  /\ t \in Threads
  /\ th[t].pc = "mapbox_wait"
  /\ \E r \in MapboxResponses(ArgLat(t), ArgLon(t), ArgZoom(t), ArgWidth(t), ArgHeight(t)) :
       LET m == MapboxReturn(t, Local(t), r)
       IN IF m.thr.pc = "gen"
            THEN Install(t, GenCall(t, m))
            ELSE Install(t, m)
  /\ UNCHANGED <<report, batch_info, program, columns, table, mapbox_token, gemini_api_key, pc, raised,
                 dirs, files, part, result_paths, output, request>>

\* model.generate_content returns or raises, and the function ends.
GeminiResponds(t) ==
  /\ t \in Threads
  /\ th[t].pc = "gen_wait"
  /\ \E r \in GeminiResponses(th[t].sat, ArgYear(t), ArgAlt(t)) :
       /\ ReplyKind(r) \in {ServiceDisposition(ArgYear(t)), "exception"}
       /\ Install(t, GenReturn(t, Local(t), r))
  /\ UNCHANGED <<report, batch_info, program, columns, table, mapbox_token, gemini_api_key, pc, raised,
                 dirs, files, part, result_paths, output, request>>

\* ------------------------------------------------------------------------
\* create_enhanced_image: the two writes
\* ------------------------------------------------------------------------
WriteOutcomes == {"ok", "write_fails"}

\* Lines 67-68 (the image, pc "write") and lines 75-81 (the diagnostic text,
\* pc "fallback").  A failure of the first is caught at line 72 and leads to
\* the second; a failure of the second leaves create_enhanced_image and is
\* caught at the row boundary, line 115.
WriteFile(p) ==
  /\ p \in Partitions
  /\ th[p].pc \in {"write", "fallback"}
  /\ LET i == th[p].cur
         r == table[i]
         path == ImagePath(r)
         payload == IF th[p].pc = "write"
                      THEN th[p].enh
                      ELSE DiagnosticText(r.lattitude, r.longitude, r.altitude, r.year, th[p].e)
         exc == OSError(28, "No space left on device", path)
     IN \E outcome \in WriteOutcomes :
          IF outcome = "ok"
            THEN /\ files' = WriteTo(files, path, payload)
                 /\ FinishRow(p, RowResult(path, NoExc))
                 /\ hist' = [hist EXCEPT ![i].written = @ + 1,
                                         ![i].e = th[p].e]
            ELSE /\ \E left \in Truncations(payload) : files' = WriteTo(files, path, left)
                 /\ IF th[p].pc = "write"
                      THEN /\ th' = [th EXCEPT ![p].pc = "fallback", ![p].e = exc]
                           /\ result_paths' = result_paths
                           /\ hist' = hist
                      ELSE /\ FinishRow(p, RowResult(path, exc))
                           /\ hist' = [hist EXCEPT ![i].e = th[p].e,
                                                   ![i].boundary = exc]
  /\ UNCHANGED <<report, batch_info, program, columns, table, mapbox_token, gemini_api_key, pc, raised,
                 dirs, part, output, request, response>>

\* ------------------------------------------------------------------------
\* process_row_to_image, called directly with one row's values
\* ------------------------------------------------------------------------
\* Lines 28-40 and 48-56: the batch directory is created, the path is computed
\* and create_enhanced_image calls get_mapbox_image.  The function has no
\* except clause: an OSError of mkdir goes to its caller.
ProcessRowCall ==
  /\ program = "direct"
  /\ pc = "row_start"
  /\ \E denied \in BOOLEAN :
       LET made == MkdirOutcome(dirs, BatchDir(table[1].batchID), OUTPUT_ROOT, TRUE, TRUE, denied)
       IN /\ dirs' = made.dirs
          /\ raised' = made.exc
          /\ IF made.exc = NoExc
               THEN /\ pc' = "row_running"
                    /\ Install(RP, MapboxCall(RP, [Local(RP) EXCEPT !.thr.cur = 1]))
               ELSE /\ pc' = "row_raised"
                    /\ UNCHANGED <<th, hist, response>>
  /\ UNCHANGED <<report, batch_info, program, columns, table, mapbox_token, gemini_api_key,
                 files, part, result_paths, output, request>>

\* create_enhanced_image, lines 67-68 and 75-81, and line 42: a failure of the
\* image write leads to the fallback write; a failure of the fallback write
\* leaves create_enhanced_image and process_row_to_image; otherwise
\* str(image_path) is returned.
ProcessRowWrite ==
  /\ program = "direct"
  /\ th[RP].pc \in {"write", "fallback"}
  /\ LET r == table[1]
         path == ImagePath(r)
         payload == IF th[RP].pc = "write"
                      THEN th[RP].enh
                      ELSE DiagnosticText(r.lattitude, r.longitude, r.altitude, r.year, th[RP].e)
         exc == OSError(28, "No space left on device", path)
     IN \E outcome \in WriteOutcomes :
          IF outcome = "ok"
            THEN /\ files' = WriteTo(files, path, payload)
                 /\ th' = [th EXCEPT ![RP] = [IdleThread EXCEPT !.pc = "returned"]]
                 /\ output' = <<path>>
                 /\ pc' = "row_returned"
                 /\ raised' = raised
                 /\ hist' = [hist EXCEPT ![1].written = @ + 1, ![1].e = th[RP].e]
            ELSE /\ \E left \in Truncations(payload) : files' = WriteTo(files, path, left)
                 /\ output' = output
                 /\ IF th[RP].pc = "write"
                      THEN /\ th' = [th EXCEPT ![RP].pc = "fallback", ![RP].e = exc]
                           /\ UNCHANGED <<pc, raised, hist>>
                      ELSE /\ th' = [th EXCEPT ![RP] = [IdleThread EXCEPT !.pc = "returned"]]
                           /\ pc' = "row_raised"
                           /\ raised' = exc
                           /\ hist' = [hist EXCEPT ![1].e = th[RP].e]
  /\ UNCHANGED <<report, batch_info, program, columns, table, mapbox_token, gemini_api_key,
                 dirs, part, result_paths, request, response>>

\* ------------------------------------------------------------------------
\* main.py: POST /generate-enhanced-aerial-view
\* ------------------------------------------------------------------------
Requests ==
  { [latitude |-> FloatV(377), longitude |-> FloatV(-1224), text_prompt |-> "harbour",
     year |-> IntV(y), altitude |-> IntV(1000), zoom |-> 15, width |-> 512, height |-> 512]
    : y \in {1850, 1950, 2024} }

\* A request arrives and the handler runs up to requests.get (lines 179-191).
EpRequest ==
  /\ program = "api"
  /\ th[EP].pc \in {"idle", "responded"}
  /\ \E q \in Requests : request' = q
  /\ Install(EP, MapboxCall(EP, [thr |-> IdleThread, hist |-> hist, response |-> NoResponse]))
  /\ UNCHANGED <<report, batch_info, program, columns, table, mapbox_token, gemini_api_key, pc, raised,
                 dirs, files, part, result_paths, output>>

\* ------------------------------------------------------------------------
\* app.py: POST /process, the caller of the pipeline
\* ------------------------------------------------------------------------
WEB_BATCH == "web_ab12cd34"

\* Lines 28-44: the table process_coordinates builds has the five columns, one
\* batch id and one row per year of its list of years.
WebTable ==
  /\ columns = {"batchID", "lattitude", "longitude", "altitude", "year"}
  /\ table # <<>>
  /\ \A i \in DOMAIN table : table[i].batchID = WEB_BATCH
  /\ \A i, j \in DOMAIN table : i # j => table[i].year # table[j].year

\* os.path.exists(path)
PathExists(fs, ds, path) == path \in DOMAIN fs \/ path \in ds

\* Line 61: os.path.exists(image_path) and not str(image_path).startswith('ERROR:')
RowSucceeded(fs, ds, image_path) ==
  /\ PathExists(fs, ds, image_path)
  /\ ~StartsWith(image_path, "ERROR:")

\* The years of the rows whose indices are in idx, in that order.
YearsAt(tbl, idx) == [k \in 1..Len(idx) |-> tbl[idx[k]].year.v]

\* Mutant: every row's year is appended to failed_years.
failed_years_All(tbl, image_paths, fs, ds) ==
  YearsAt(tbl, [i \in 1..Len(tbl) |-> i])

\* Lines 54-64: the two lists the loop over the result rows fills.
successful_years(tbl, image_paths, fs, ds) ==
  YearsAt(tbl, SelectSeq([i \in 1..Len(tbl) |-> i],
                         LAMBDA i : RowSucceeded(fs, ds, image_paths[i])))

failed_years(tbl, image_paths, fs, ds) ==
  YearsAt(tbl, SelectSeq([i \in 1..Len(tbl) |-> i],
                         LAMBDA i : ~RowSucceeded(fs, ds, image_paths[i])))

\* Lines 52-88: the JSON body answered for a materialised result.
ProcessReport(tbl, image_paths, fs, ds) ==
  IF Len(image_paths) > 0
    THEN IF successful_years(tbl, image_paths, fs, ds) # <<>>
           THEN [success |-> TRUE,
                 batch_id |-> tbl[1].batchID,
                 years |-> successful_years(tbl, image_paths, fs, ds),
                 failed_years |-> failed_years(tbl, image_paths, fs, ds)]
           ELSE [success |-> FALSE, error |-> "Failed to create any files"]
    ELSE [success |-> FALSE, error |-> "No results returned from pipeline"]

\* Lines 47-94: process_coordinates answers once the result is materialised,
\* or with str(e) when the pipeline raised.
Report ==
  /\ program = "pipeline"
  /\ WebTable
  /\ pc \in {"done", "raised"}
  /\ report = NoReport
  /\ report' = IF pc = "raised"
                 THEN [success |-> FALSE, error |-> StrExc(raised)]
                 ELSE ProcessReport(table, output, files, dirs)
  /\ UNCHANGED <<batch_info, program, columns, table, mapbox_token, gemini_api_key, pc,
                 raised, dirs, files, part, th, result_paths, output, request,
                 response, hist>>

\* ------------------------------------------------------------------------
\* app.py: GET /api/batch_info/<batch_id>
\* ------------------------------------------------------------------------
EndsWith(str, suffix) ==
  /\ Len(str) >= Len(suffix)
  /\ SubSeq(str, Len(str) - Len(suffix) + 1, Len(str)) = suffix

\* str.split(sep) for a one-character separator, from position k on, with
\* cur the field read so far.
RECURSIVE SplitFrom(_, _, _, _)
SplitFrom(str, sep, k, cur) ==
  IF k > Len(str) THEN <<cur>>
  ELSE IF SubSeq(str, k, k) = sep
    THEN <<cur>> \o SplitFrom(str, sep, k + 1, "")
    ELSE SplitFrom(str, sep, k + 1, cur \o SubSeq(str, k, k))

Split(str, sep) == SplitFrom(str, sep, 1, "")

DigitOf(c) ==
  CASE c = "0" -> 0 [] c = "1" -> 1 [] c = "2" -> 2 [] c = "3" -> 3 [] c = "4" -> 4
    [] c = "5" -> 5 [] c = "6" -> 6 [] c = "7" -> 7 [] c = "8" -> 8 [] c = "9" -> 9
    [] OTHER -> -1

\* The number a string of decimal digits denotes, -1 when it is not one.
RECURSIVE ParseDigits(_, _)
ParseDigits(str, acc) ==
  IF str = "" THEN acc
  ELSE IF DigitOf(SubSeq(str, 1, 1)) < 0 THEN -1
  ELSE ParseDigits(SubSeq(str, 2, Len(str)), 10 * acc + DigitOf(SubSeq(str, 1, 1)))

ParseNat(str) == IF str = "" THEN -1 ELSE ParseDigits(str, 0)

Unsigned(str) == IF StartsWith(str, "-") THEN SubSeq(str, 2, Len(str)) ELSE str
Signed(str, n) == IF StartsWith(str, "-") THEN -n ELSE n

\* int(str): ok is FALSE where Python raises ValueError.
ParseInt(str) ==
  LET n == ParseNat(Unsigned(str))
  IN [ok |-> n >= 0, v |-> Signed(str, n)]

\* float(str), in tenths: "37.7" is 377, "-122.4" is -1224, "50" is 500 (the
\* floats of the model have one decimal place).
ParseFloat(str) ==
  LET fields == Split(Unsigned(str), ".")
      whole == ParseNat(fields[1])
      frac == IF Len(fields) = 2 THEN ParseNat(fields[2]) ELSE 0
  IN [ok |-> Len(fields) <= 2 /\ whole >= 0 /\ frac >= 0 /\ frac <= 9,
      v |-> Signed(str, 10 * whole + frac)]

\* Path(name).stem of a name that ends with ".png"
Stem(name) == SubSeq(name, 1, Len(name) - 4)

\* Lines 166-182: what the loop body reads off one file name; ok is FALSE
\* where the file is skipped.
ParseStem(name) ==
  LET parts == Split(Stem(name), "_")
  IN IF Len(parts) >= 5
       THEN LET year == ParseInt(parts[Len(parts)])
                lat == ParseFloat(parts[2])
                lon == ParseFloat(parts[3])
                alt == ParseFloat(parts[4])
            IN [ok |-> year.ok /\ lat.ok /\ lon.ok /\ alt.ok,
                year |-> year.v, latitude |-> lat.v, longitude |-> lon.v, altitude |-> alt.v]
       ELSE [ok |-> FALSE, year |-> 0, latitude |-> 0, longitude |-> 0, altitude |-> 0]

\* batch_dir.glob('*.png'): the names of the files of the directory.
GlobPng(fs, batch_dir) ==
  {SubSeq(q, Len(batch_dir) + 2, Len(q)) :
     q \in {f \in DOMAIN fs : /\ StartsWith(f, batch_dir \o "/")
                             /\ EndsWith(f, ".png")
                             /\ ~Contains(SubSeq(f, Len(batch_dir) + 2, Len(f)), "/")}}

\* The orders in which glob may list the names.
Listings(names) ==
  {f \in [1..Cardinality(names) -> names] :
     \A a, b \in 1..Cardinality(names) : a # b => f[a] # f[b]}

\* Mutant: the years are left in the order of the listing.
SortYears_Unsorted(years) == years

\* available_years.sort()
SortYears(years) == SortSeq(years, LAMBDA a, b : a < b)

\* Lines 154-191 for a listing of the directory's files.
BatchInfo(batch_id, ds, image_files) ==
  IF JoinPath(OUTPUT_ROOT, batch_id) \notin ds
    THEN [status_code |-> 404, error |-> "Batch not found"]
    ELSE LET parsed == SelectSeq([k \in 1..Len(image_files) |-> ParseStem(image_files[k])],
                                 LAMBDA x : x.ok)
         IN [status_code |-> 200,
             success |-> TRUE,
             batch_id |-> batch_id,
             available_years |-> SortYears([k \in 1..Len(parsed) |-> parsed[k].year]),
             coordinates |-> IF parsed = <<>>
                               THEN <<>>
                               ELSE [latitude |-> parsed[1].latitude,
                                     longitude |-> parsed[1].longitude,
                                     altitude |-> parsed[1].altitude]]

\* The results page asks for the batch that /process reported as processed.
GetBatchInfo ==
  /\ program = "pipeline"
  /\ report # NoReport
  /\ report.success
  /\ \E image_files \in Listings(GlobPng(files, JoinPath(OUTPUT_ROOT, report.batch_id))) :
       batch_info' = BatchInfo(report.batch_id, dirs, image_files)
  /\ UNCHANGED <<report, program, columns, table, mapbox_token, gemini_api_key, pc,
                 raised, dirs, files, part, th, result_paths, output, request,
                 response, hist>>

Next ==
  \/ SchemaCheck
  \/ MakeOutputDir
  \/ Collect
  \/ Merge
  \/ EpRequest
  \/ Report
  \/ GetBatchInfo
  \/ ProcessRowCall
  \/ ProcessRowWrite
  \/ \E p \in Partitions : Mkdir(p) \/ WriteFile(p)
  \/ \E t \in Threads : MapboxResponds(t) \/ GeminiResponds(t)

Spec == Init /\ [][Next]_vars

\* ------------------------------------------------------------------------
\* Vocabulary of the properties
\* ------------------------------------------------------------------------
N == Len(table)
Rows == 1..N

Done == program = "pipeline" /\ pc = "done"

IsError(result) == StartsWith(result, "ERROR:")

\* Row i has been through the loop body: its result is in result_paths.
Finished(i) ==
  /\ pc \in {"running", "done"}
  /\ th[part[i]].pc = "returned" \/ th[part[i]].cur > i

\* The result appended for row i by its partition.
Result(i) ==
  result_paths[part[i]][Cardinality({j \in Rows : j <= i /\ part[j] = part[i]})]

PathOf(i) == ImagePath(table[i])

\* No other row of the table has the path of row i.
SolePath(i) == \A j \in Rows \ {i} : PathOf(j) # PathOf(i)

FileAt(path) == IF path \in DOMAIN files THEN files[path] ELSE NoBytes

\* The row's provider call threw (credential, status or transport), or returned.
FetchThrew(i) == hist[i].fetch = "raised"
FetchOk(i) == hist[i].fetch = "ok"

\* A file-system operation of the row failed.
FsFailed(i) == hist[i].boundary # NoExc \/ hist[i].e.type = "OSError"

\* The diagnostic payload of a row, spelt out line by line.
ExpectedDiagnostic(r, message) ==
  "Enhanced Aerial View Data:\nLatitude: 37.7\nLongitude: -122.4\nAltitude: 50m\nYear: "
    \o ToString(r.year.v) \o "\nError: " \o message \o "\n"

BaseImageOf(r) == MapboxContent(r.lattitude, r.longitude, ZOOM, WIDTH, HEIGHT)
EnhancedImageOf(r) == GeminiContent(BaseImageOf(r), r.year, r.altitude)

\* One row's provider call threw and every other row's call succeeded.
OneFetchThrows ==
  /\ Cardinality({i \in Rows : FetchThrew(i)}) = 1
  /\ \A i \in Rows : FetchThrew(i) \/ FetchOk(i)

\* ------------------------------------------------------------------------
\* C1: isolation of a row whose provider call throws
\* ------------------------------------------------------------------------
\* C1 as stated: in a finished run where one row's provider call threw and the
\* other N-1 succeeded, the image_path column holds exactly one string that
\* starts with "ERROR:" and N-1 paths.
C1_Original ==
  (Done /\ OneFetchThrows /\ \A i \in Rows : ~FsFailed(i))
    => Cardinality({i \in Rows : IsError(output[i])}) = 1

\* C1 as amended: in a finished run where one row's provider call threw and the
\* other N-1 succeeded, nothing was raised to the caller, the column holds one
\* result per row, the row whose call threw holds its path (with the
\* diagnostic payload in its file) and not an "ERROR:" string, a result is an
\* "ERROR:" string only for a row whose own fallback write failed, and the file
\* of every other row that completed its write at a path of its own is that
\* row's own payload.
C1_Isolation ==
  (Done /\ OneFetchThrows) =>
    /\ raised = NoExc
    /\ Len(output) = N
    /\ \A i \in Rows :
         /\ IsError(output[i]) <=> hist[i].boundary # NoExc
         /\ ~IsError(output[i]) => output[i] = PathOf(i)
         /\ (FetchThrew(i) /\ hist[i].written = 1 /\ SolePath(i))
              => /\ output[i] = PathOf(i)
                 /\ FileAt(PathOf(i)) = ExpectedDiagnostic(table[i], StrExc(hist[i].e))
         /\ (~FetchThrew(i) /\ hist[i].written = 1 /\ SolePath(i))
              => FileAt(PathOf(i)) \in
                   { ExpectedDiagnostic(table[i], StrExc(hist[i].e)),
                     BaseImageOf(table[i]), EnhancedImageOf(table[i]) }

\* A finished run of two rows at different paths: the first row's provider call
\* threw, the second's succeeded, both wrote their files.
C1_Witness ==
  /\ Done /\ OneFetchThrows /\ N = 2
  /\ FetchThrew(1) /\ FetchOk(2)
  /\ PathOf(1) # PathOf(2)
  /\ hist[1].written = 1 /\ hist[2].written = 1
  /\ ~IsError(output[1]) /\ ~IsError(output[2])

\* ------------------------------------------------------------------------
\* C2, C3: what the file holds when the fetch succeeds
\* ------------------------------------------------------------------------
\* C2 as stated: a processed row whose fetch succeeded and whose request the
\* service answers with an image has that enhanced image in its file and its
\* path as its result.  (Rows with a failed file operation or a shared path
\* are left out.)
C2_Original ==
  \A i \in Rows :
    (Finished(i) /\ FetchOk(i) /\ ServiceDisposition(table[i].year) = "image"
       /\ ~FsFailed(i) /\ SolePath(i))
      => /\ FileAt(PathOf(i)) = EnhancedImageOf(table[i])
         /\ Result(i) = PathOf(i)

\* C3 as stated: a processed row whose fetch succeeded and whose request the
\* service answers with no image and no block has the base image in its file.
C3_Original ==
  \A i \in Rows :
    (Finished(i) /\ FetchOk(i) /\ ServiceDisposition(table[i].year) = "no_image"
       /\ ~FsFailed(i) /\ SolePath(i))
      => FileAt(PathOf(i)) = BaseImageOf(table[i])

\* ------------------------------------------------------------------------
\* C4: the fallback payload
\* ------------------------------------------------------------------------
\* The messages of the exceptions the fetch and the enhancement step raise.
StepMessages ==
  { "500: Mapbox access token not configured",
    "500: Failed to fetch map image: Not Authorized",
    "Connection aborted",
    "generate_enhanced_aerial_view() missing 1 required positional argument: 'text_prompt'",
    "500: Gemini API key not configured",
    "400: Image generation blocked by API. Reason: SAFETY",
    "500: Failed to generate enhanced aerial view: 503 Service Unavailable" }

\* C4: for a processed row (at a path of its own) whose fetch or enhancement
\* step raised, the file the row wrote is the diagnostic text with the row's
\* latitude, longitude, altitude, year and the message of the exception that
\* was caught, and whatever is at its path is never image bytes.
C4_FallbackDiagnostic ==
  \A i \in Rows :
    (Finished(i) /\ (FetchThrew(i) \/ hist[i].enhance = "raised") /\ SolePath(i))
      => /\ ~IsImage(FileAt(PathOf(i)))
         /\ hist[i].written = 1
              => /\ StrExc(hist[i].e) \in StepMessages
                 /\ FileAt(PathOf(i)) = ExpectedDiagnostic(table[i], StrExc(hist[i].e))
                 /\ Result(i) = PathOf(i)

\* A processed row whose provider answered 401 and whose file holds the
\* diagnostic text with that message.
C4_Witness ==
  \E i \in Rows :
    /\ Finished(i) /\ FetchThrew(i) /\ SolePath(i) /\ hist[i].written = 1
    /\ FileAt(PathOf(i)) =
         ExpectedDiagnostic(table[i], "500: Failed to fetch map image: Not Authorized")

\* ------------------------------------------------------------------------
\* C5: one result per row, in row order
\* ------------------------------------------------------------------------
ExpectedPath(r) ==
  "output/" \o r.batchID \o "/img_37.7_-122.4_50_" \o ToString(r.year.v) \o ".png"

\* The "ERROR: ..." strings row r can end with: its mkdir or its fallback
\* write failed.
ExpectedErrors(r) ==
  { "ERROR: [Errno 13] Permission denied: 'output/" \o r.batchID \o "'",
    "ERROR: [Errno 28] No space left on device: '" \o ExpectedPath(r) \o "'" }

\* C5: when the run is finished the image_path column has one entry per row of
\* the table, and entry i is the path computed from row i's batchID, latitude,
\* longitude, altitude and year, or an "ERROR: ..." string about row i's own
\* directory or path.
C5_RowCountAndOrder ==
  Done =>
    /\ Len(output) = N
    /\ \A i \in Rows :
         \/ output[i] = ExpectedPath(table[i])
         \/ IsError(output[i]) /\ output[i] \in ExpectedErrors(table[i])

\* A finished run over two different rows that the runtime put in two
\* partitions, both with a path as result.
C5_Witness ==
  /\ Done /\ N = 2 /\ table[1] # table[2] /\ part[1] # part[2]
  /\ output = <<ExpectedPath(table[1]), ExpectedPath(table[2])>>

\* ------------------------------------------------------------------------
\* C6: the schema check
\* ------------------------------------------------------------------------
SchemaRaised == program = "pipeline" /\ pc = "raised" /\ raised.type = "ValueError"
SchemaPassed == program = "pipeline" /\ pc # "start" /\ ~SchemaRaised

NothingDone ==
  /\ dirs = {} /\ DOMAIN files = {}
  /\ \A i \in Rows : hist[i] = NoHist
  /\ \A t \in Threads : th[t] = IdleThread
  /\ \A p \in Partitions : result_paths[p] = <<>>
  /\ output = <<>>

\* C6 as stated: the check passes exactly when the table has the five columns
\* batchID, latitude, longitude, altitude and year.
C6_Original ==
  (program = "pipeline" /\ pc # "start")
    => (SchemaPassed <=> {"batchID", "latitude", "longitude", "altitude", "year"} \subseteq columns)

\* C6 as amended: the check passes exactly when the table has the five columns
\* batchID, lattitude (spelt so), longitude, altitude and year; otherwise it
\* raises an error whose message names exactly the missing ones, and no
\* directory, file or row result exists then.
C6_SchemaCheck ==
  (program = "pipeline" /\ pc # "start")
    => /\ SchemaPassed <=> {"batchID", "lattitude", "longitude", "altitude", "year"} \subseteq columns
       /\ SchemaRaised
            => /\ StartsWith(raised.detail, "Missing required columns: [")
               /\ \A c \in {"batchID", "lattitude", "longitude", "altitude", "year"} :
                    Contains(raised.detail, "'" \o c \o "'") <=> c \notin columns
               /\ NothingDone

\* A table with rows whose columns are batchID, latitude, longitude: rejected
\* with a message that names lattitude, altitude and year.
C6_Witness ==
  /\ SchemaRaised /\ N > 0
  /\ columns = {"batchID", "latitude", "longitude"}
  /\ raised.detail = "Missing required columns: ['lattitude', 'altitude', 'year']"

Blocked(i) == hist[i].e.type = "HTTPException" /\ hist[i].e.status_code = 400

HoldsDiagnostic(i) ==
  FileAt(PathOf(i)) = ExpectedDiagnostic(table[i], StrExc(hist[i].e))

\* C8 as stated, for a processed row (no failed file operation, a path of its
\* own): the enhancement step is entered only after a successful fetch, the row
\* went FETCH_FAILED -> FALLBACK_WRITTEN, or BLOCKED -> FALLBACK_WRITTEN, or
\* NO_IMAGE -> BASE_WRITTEN, or ENHANCED -> ENHANCED_WRITTEN, and exactly one
\* file was written at its path.
C8_Original ==
  \A i \in Rows :
    (Finished(i) /\ ~FsFailed(i) /\ SolePath(i))
      => /\ hist[i].enhance # "none" => FetchOk(i)
         /\ hist[i].written = 1
         /\ \/ FetchThrew(i) /\ hist[i].enhance = "none" /\ HoldsDiagnostic(i)
            \/ FetchOk(i) /\ hist[i].enhance = "raised" /\ Blocked(i) /\ HoldsDiagnostic(i)
            \/ FetchOk(i) /\ hist[i].enhance = "no_image"
                 /\ FileAt(PathOf(i)) = BaseImageOf(table[i])
            \/ FetchOk(i) /\ hist[i].enhance = "image"
                 /\ FileAt(PathOf(i)) = EnhancedImageOf(table[i])

\* ------------------------------------------------------------------------
\* C9: who writes which file
\* ------------------------------------------------------------------------
\* C9 as stated: no two rows (positions) of the table write the same file.
C9_Original ==
  \A i, j \in Rows :
    (i # j /\ hist[i].written >= 1 /\ hist[j].written >= 1) => PathOf(i) # PathOf(j)

OSErrorMessages(r) ==
  { "[Errno 28] No space left on device: '" \o ExpectedPath(r) \o "'" }

\* What a row with the values r can write whole.
PayloadsOf(r) ==
  {ExpectedDiagnostic(r, m) : m \in StepMessages \cup OSErrorMessages(r)}
    \cup {BaseImageOf(r), EnhancedImageOf(r)}

\* data is a whole payload of a row with the values r: the diagnostic text
\* with one of the messages, or one of its two images.
IsPayloadOf(r, data) ==
  LET head == "Enhanced Aerial View Data:\nLatitude: 37.7\nLongitude: -122.4\nAltitude: 50m\nYear: "
                \o ToString(r.year.v) \o "\nError: "
  IN IF StartsWith(data, head)
       THEN /\ Len(data) > Len(head)
            /\ SubSeq(data, Len(data), Len(data)) = "\n"
            /\ SubSeq(data, Len(head) + 1, Len(data) - 1) \in StepMessages \cup OSErrorMessages(r)
       ELSE data \in {BaseImageOf(r), EnhancedImageOf(r)}

\* data is something a row with the values r can leave in a file: a payload,
\* whole or cut short.
LeftBy(r, data) ==
  \/ IsPayloadOf(r, data)
  \/ \E d \in PayloadsOf(r) :
       Len(data) = Len(d) \div 2 /\ data = SubSeq(d, 1, Len(data))

\* C9 as amended: rows that differ in batchID, latitude, longitude, altitude or
\* year have different paths, and under every interleaving every file holds
\* what a row with that path's own values wrote; only rows equal in all five
\* values share a path.
C9_DistinctValuesDistinctPaths ==
  /\ \A i, j \in Rows : table[i] # table[j] => PathOf(i) # PathOf(j)
  /\ \A q \in DOMAIN files :
       \E i \in Rows : q = ExpectedPath(table[i]) /\ LeftBy(table[i], files[q])

\* Two rows that differ only in the year, run in two partitions, each with its
\* own file written.
C9_Witness ==
  /\ Done /\ N = 2 /\ part[1] # part[2]
  /\ table[1].batchID = table[2].batchID /\ table[1].year # table[2].year
  /\ hist[1].written = 1 /\ hist[2].written = 1
  /\ PathOf(1) \in DOMAIN files /\ PathOf(2) \in DOMAIN files /\ PathOf(1) # PathOf(2)

\* ------------------------------------------------------------------------
\* C10: termination when a service does not answer
\* ------------------------------------------------------------------------
\* The program's own steps are taken whenever they can be; when, and whether,
\* an external service answers is not in the program's hands: requests.get is
\* called without a timeout (main.py line 58).
FairSpec ==
  /\ Spec
  /\ WF_vars(SchemaCheck) /\ WF_vars(MakeOutputDir) /\ WF_vars(Collect) /\ WF_vars(Merge)
  /\ WF_vars(Report) /\ WF_vars(ProcessRowCall) /\ WF_vars(ProcessRowWrite)
  /\ \A p \in Partitions : WF_vars(Mkdir(p)) /\ WF_vars(WriteFile(p))

\* C10 as stated: once the rows are being processed, every row eventually has
\* its result and the run finishes, whether or not the services answer.
C10_Original == (program = "pipeline" /\ pc = "running") ~> (pc = "done")

\* ------------------------------------------------------------------------
\* C11: the batch report and the diagnostic stand-in
\* ------------------------------------------------------------------------
Reported == program = "pipeline" /\ report # NoReport

InSeq(seq, x) == \E k \in 1..Len(seq) : seq[k] = x

\* C11 as stated: in a batch report that lists years, a year whose file is the
\* diagnostic stand-in is in failed_years and not in years, and a year is in
\* years only when its file exists and holds image bytes.
C11_Original ==
  (Reported /\ pc = "done" /\ report.success) =>
    \A i \in Rows :
      /\ HoldsDiagnostic(i)
           => /\ InSeq(report.failed_years, table[i].year.v)
              /\ ~InSeq(report.years, table[i].year.v)
      /\ InSeq(report.years, table[i].year.v)
           => PathOf(i) \in DOMAIN files /\ IsImage(files[PathOf(i)])

\* ------------------------------------------------------------------------
\* C12: process_row_to_image and its failures
\* ------------------------------------------------------------------------
\* C12 as stated: a call of process_row_to_image that has ended has returned a
\* string (the path, or an error string with the exception's message), and no
\* exception has left it.
C12_Original ==
  (program = "direct" /\ pc \in {"row_returned", "row_raised"})
    => /\ raised = NoExc
       /\ Len(output) = 1
       /\ \/ output[1] = PathOf(1)
          \/ IsError(output[1])

\* ------------------------------------------------------------------------
\* C13: the same row processed again
\* ------------------------------------------------------------------------
\* What the run of row i that has just completed its write wrote.
WrittenBy(i, h) ==
  IF h[i].e = NoExc
    THEN {BaseImageOf(table[i]), EnhancedImageOf(table[i])}
    ELSE {ExpectedDiagnostic(table[i], StrExc(h[i].e))}

\* The rows with the values of row i.
SameRow(i) == {j \in Rows : table[j] = table[i]}

\* C13: a processed row's result, when it is a path, is the string computed
\* from its batchID, latitude, longitude, altitude and year, so rows with equal
\* values return the identical path; every processed row ran its own
\* generation (nothing is skipped because the file is there); a completed
\* write replaces whatever was at the path by the payload of that run, adds no
\* other file and changes no other file; and when the equal rows ran one after
\* the other, the file holds what the last of them wrote.
C13_IdempotentOverwrite ==
  /\ [](\A i \in Rows :
          /\ (Finished(i) /\ ~IsError(Result(i))) => Result(i) = ExpectedPath(table[i])
          /\ Finished(i) => (hist[i].fetch # "none" \/ hist[i].boundary # NoExc)
          /\ (/\ Finished(i) /\ hist[i].written = 1
              /\ \A j \in SameRow(i) : part[j] = part[i] /\ j <= i)
               => FileAt(PathOf(i)) \in WrittenBy(i, hist))
  /\ [][\A i \in Rows :
          hist'[i].written = hist[i].written + 1
            => /\ files'[PathOf(i)] \in WrittenBy(i, hist')
               /\ DOMAIN files' = DOMAIN files \cup {PathOf(i)}
               /\ \A q \in DOMAIN files \ {PathOf(i)} : files'[q] = files[q]]_vars

\* Two rows with equal values processed one after the other in one partition:
\* both returned the same path, the first wrote the payload of a failed fetch,
\* the second that of the failed enhancement call, and the file holds the second.
C13_Witness ==
  /\ Done /\ N = 2 /\ table[1] = table[2] /\ part[1] = part[2]
  /\ output[1] = output[2] /\ output[1] = PathOf(1)
  /\ hist[1].written = 1 /\ hist[2].written = 1
  /\ FetchThrew(1) /\ hist[2].enhance = "raised"
  /\ FileAt(PathOf(2)) = ExpectedDiagnostic(table[2], StrExc(hist[2].e))
  /\ FileAt(PathOf(2)) # ExpectedDiagnostic(table[1], StrExc(hist[1].e))

\* ------------------------------------------------------------------------
\* C14: concurrent creation of the directories
\* ------------------------------------------------------------------------
\* Row i is being processed and its mkdir has returned.
PastMkdir(i) ==
  /\ program = "pipeline" /\ pc \in {"running", "done"}
  /\ \/ th[part[i]].cur = i /\ th[part[i]].pc # "mkdir"
     \/ Finished(i) /\ ~StartsWith(hist[i].boundary.detail, "[Errno 13]")

\* C14: under every interleaving of the rows (and with directories left by an
\* earlier run), no creation attempt ends with errno 17, "File exists": nothing raised
\* to the caller and no row's error is a FileExistsError; the output root
\* exists once process_dataframe_pipeline has returned; once a row's mkdir has
\* returned, the root and the row's batch directory exist; and the rows of one
\* batch have their paths in that one directory.
C14_ConcurrentMkdir ==
  /\ raised.type # "FileExistsError"
  /\ ~StartsWith(raised.detail, "[Errno 17]")
  /\ (program = "pipeline" /\ pc \in {"returned", "running", "done"}) => OUTPUT_ROOT \in dirs
  /\ program = "direct" /\ pc \in {"row_running", "row_returned"}
       => {"output", "output/" \o table[1].batchID} \subseteq dirs
  /\ \A i \in Rows :
       /\ hist[i].boundary.type # "FileExistsError"
       /\ ~StartsWith(hist[i].boundary.detail, "[Errno 17]")
       /\ PastMkdir(i) => {"output", "output/" \o table[i].batchID} \subseteq dirs
       /\ StartsWith(PathOf(i), "output/" \o table[i].batchID \o "/img_")

\* Two rows of one batch in two partitions, both past their mkdir at the same
\* time: the second attempt found the directory the first had made.
C14_Witness ==
  /\ program = "pipeline" /\ pc = "running" /\ N = 2
  /\ table[1].batchID = table[2].batchID /\ part[1] # part[2]
  /\ th[part[1]].pc = "mapbox_wait" /\ th[part[2]].pc = "mapbox_wait"
  /\ "output/" \o table[1].batchID \in dirs

\* ------------------------------------------------------------------------
\* C15: a write that fails partway
\* ------------------------------------------------------------------------
\* C15 as stated: whenever a processed row's result is a path, the file at
\* that path is a complete payload of the row.
C15_Original ==
  \A i \in Rows :
    (Finished(i) /\ ~IsError(Result(i)))
      => /\ Result(i) \in DOMAIN files
         /\ files[Result(i)] \in PayloadsOf(table[i])

\* C15 as amended: whenever the result of a processed row at a path of its own
\* is a path, the file at that path is a complete payload of the row; the
\* row's result is an "ERROR:" string exactly when an exception reached the
\* row's boundary, and it is one whenever the row's last write failed partway.
C15_NoTruncatedSuccess ==
  \A i \in Rows :
    Finished(i) =>
      /\ (~IsError(Result(i)) /\ SolePath(i))
           => /\ Result(i) = PathOf(i)
              /\ Result(i) \in DOMAIN files
              /\ IsPayloadOf(table[i], files[Result(i)])
      /\ IsError(Result(i)) <=> hist[i].boundary # NoExc
      /\ (SolePath(i) /\ PathOf(i) \in DOMAIN files /\ ~IsPayloadOf(table[i], files[PathOf(i)]))
           => /\ IsError(Result(i))
              /\ Contains(Result(i), "No space left on device")

\* A processed row at a path of its own whose fallback write failed partway:
\* the file is cut short and the row's result is the error string.
C15_Witness ==
  \E i \in Rows :
    /\ Finished(i) /\ SolePath(i)
    /\ PathOf(i) \in DOMAIN files
    /\ files[PathOf(i)] \notin PayloadsOf(table[i])
    /\ Result(i) = "ERROR: [Errno 28] No space left on device: '" \o ExpectedPath(table[i]) \o "'"

\* ------------------------------------------------------------------------
\* C16: the batch report partitions the years
\* ------------------------------------------------------------------------
\* Row i ended with a path at which a file exists.
HasFile(i) == output[i] = PathOf(i) /\ PathOf(i) \in DOMAIN files

\* C16: when the result was materialised, the report says success exactly when
\* some row ended with a path at which a file exists; a report of success
\* lists every submitted year in exactly one of years and failed_years (in
\* years exactly when the row has its file), each once; a report of failure
\* for a materialised result means no row has a file; when the pipeline
\* raised, the report is a failure carrying the exception's message; and an
\* empty result is reported as a failure.
C16_ReportPartition ==
  /\ ~ProcessReport(<<>>, <<>>, files, dirs).success
  /\ Reported =>
       IF pc = "raised"
         THEN /\ ~report.success
              /\ report.error = StrExc(raised)
              /\ report.error = "[Errno 13] Permission denied: 'output'"
         ELSE /\ report.success <=> \E i \in Rows : HasFile(i)
              /\ report.success =>
                   /\ Len(report.years) + Len(report.failed_years) = N
                   /\ \A i \in Rows :
                        /\ InSeq(report.years, table[i].year.v) <=> HasFile(i)
                        /\ InSeq(report.failed_years, table[i].year.v) <=> ~HasFile(i)
              /\ ~report.success => report.error = "Failed to create any files"

\* A report after a run of two years: the directory of the first row could not
\* be created, the second row has its file; 2020 is listed as successful and
\* 1850 as failed.
C16_Witness ==
  /\ Reported /\ pc = "done" /\ N = 2
  /\ report.success
  /\ report.years = <<2020>> /\ report.failed_years = <<1850>>
  /\ IsError(output[1]) /\ HasFile(2)

\* ------------------------------------------------------------------------
\* C17: a blocked row and the other rows
\* ------------------------------------------------------------------------
\* Row i is waiting for the answer of an external call.
Waiting(i) ==
  /\ program = "pipeline" /\ pc = "running"
  /\ th[part[i]].cur = i
  /\ th[part[i]].pc \in {"mapbox_wait", "gen_wait"}

\* Row j is in progress: it is the row its partition's loop is at, so a step
\* of its own (mkdir, an answer to its call, its write) can be taken.
InProgress(j) == th[part[j]].cur = j /\ th[part[j]].pc # "returned"

\* C17 as stated: while a row waits for an external call, every other row that
\* has no result yet is in progress and can take its own steps, in the same
\* partition as well as in another one.
C17_Original ==
  \A i, j \in Rows :
    (i # j /\ Waiting(i) /\ ~Finished(j)) => InProgress(j)

\* ------------------------------------------------------------------------
\* C18: the file names read back
\* ------------------------------------------------------------------------
\* A number of the model in tenths, as float() of its text gives it.
Tenths(x) == IF x.ty = "int" THEN 10 * x.v ELSE x.v

\* The years in S in ascending order.
RECURSIVE Ascending(_)
Ascending(S) ==
  IF S = {} THEN <<>>
  ELSE LET least == CHOOSE y \in S : \A z \in S : y <= z
       IN <<least>> \o Ascending(S \ {least})

\* The years of the rows of the batch whose file exists.
YearsOnDisk(batch_id) ==
  {table[i].year.v : i \in {j \in Rows : table[j].batchID = batch_id /\ PathOf(j) \in DOMAIN files}}

\* C18: whenever a batch has been asked for, the fields read back from the
\* name of the file of every row are the row's year (last field) and its
\* latitude, longitude and altitude (fields 1, 2 and 3); and the answer for a
\* batch whose directory exists lists, in ascending order, the years of the
\* batch's rows whose file exists, with the coordinates of those rows.
C18_FilenameRoundTrip ==
  (program = "pipeline" /\ batch_info # NoReport) =>
    /\ \A i \in Rows :
         LET r == table[i]
             read == ParseStem(Filename(r.lattitude, r.longitude, r.altitude, r.year))
         IN /\ read.ok
            /\ read.year = r.year.v
            /\ read.latitude = Tenths(r.lattitude)
            /\ read.longitude = Tenths(r.longitude)
            /\ read.altitude = Tenths(r.altitude)
    /\ batch_info.status_code = 200
         => /\ batch_info.available_years = Ascending(YearsOnDisk(batch_info.batch_id))
            /\ YearsOnDisk(batch_info.batch_id) # {}
                 => batch_info.coordinates =
                      [latitude |-> 377, longitude |-> -1224, altitude |-> 500]

\* The answer for a batch whose rows were 2020 and then 1850, both with files:
\* the years come back as 1850, 2020.
C18_Witness ==
  /\ program = "pipeline" /\ batch_info # NoReport /\ batch_info.status_code = 200
  /\ N = 2 /\ table[1].year.v = 2020 /\ table[2].year.v = 1850
  /\ batch_info.batch_id = table[1].batchID
  /\ batch_info.available_years = <<1850, 2020>>
  /\ batch_info.coordinates.longitude = -1224

\* ------------------------------------------------------------------------
\* C19: get_mapbox_image
\* ------------------------------------------------------------------------
\* C19: for every caller of get_mapbox_image (a row of a partition, a direct
\* call, the endpoint): a request is outstanding only when the credential is
\* configured; the bytes the caller holds are the image of a status-200 answer
\* to its own request, and it holds them only when the credential is
\* configured; with the credential missing the call ended by raising "Mapbox
\* access token not configured" with no bytes; after an answer with another
\* status it ended by raising "Failed to fetch map image: ..." with no bytes.
C19_MapboxGuard ==
  /\ \A t \in Threads :
       /\ th[t].pc = "mapbox_wait" => mapbox_token
       /\ th[t].sat # NoBytes
            => /\ mapbox_token
               /\ th[t].sat = MapboxContent(ArgLat(t), ArgLon(t), ArgZoom(t),
                                            ArgWidth(t), ArgHeight(t))
       /\ (~mapbox_token /\ th[t].pc \in {"fallback", "responded"})
            => /\ th[t].e = HTTPException(500, "Mapbox access token not configured")
               /\ th[t].sat = NoBytes
       /\ th[t].pc \in {"gen", "gen_wait", "write"} => IsImage(th[t].sat)
       /\ StartsWith(th[t].e.detail, "Failed to fetch map image")
            => /\ th[t].e = HTTPException(500, "Failed to fetch map image: Not Authorized")
               /\ th[t].sat = NoBytes
  /\ \A i \in Rows :
       /\ hist[i].fetch = "ok" => mapbox_token
       /\ (~mapbox_token /\ hist[i].fetch # "none") => hist[i].fetch = "raised"

\* The endpoint, with the credential configured, after the provider answered
\* 401: the call raised and no bytes were returned.
C19_Witness ==
  /\ program = "api" /\ mapbox_token
  /\ th[EP].pc = "responded"
  /\ th[EP].e = HTTPException(500, "Failed to fetch map image: Not Authorized")
  /\ th[EP].sat = NoBytes
  /\ response.status_code = 500

\* ------------------------------------------------------------------------
\* C20: the content-safety block
\* ------------------------------------------------------------------------
\* C20: the service is contacted only with the API key configured; a caller
\* whose call got an answer that carries a block reason, with or without image
\* parts, ended with the HTTP 400 error that names the reason and holds no
\* bytes of that call (the endpoint answers it 500 with that message, never
\* with an image); with no key configured the call ended by raising "Gemini
\* API key not configured" and no answer was ever received.
C20_BlockBeforeImage ==
  \A t \in Threads :
    /\ th[t].pc = "gen_wait" => gemini_api_key
    /\ th[t].reply # NoReply =>
         /\ gemini_api_key
         /\ (~th[t].reply.fails /\ th[t].reply.block_reason # "")
              => /\ th[t].e = HTTPException(400, "Image generation blocked by API. Reason: "
                                                  \o th[t].reply.block_reason)
                 /\ th[t].enh = NoBytes
                 /\ t = EP => /\ th[t].pc = "responded"
                              /\ response.status_code = 500
                              /\ response.content =
                                   "400: Image generation blocked by API. Reason: SAFETY"
    /\ (~gemini_api_key /\ th[t].sat # NoBytes /\ th[t].pc \in {"responded", "fallback"})
         => /\ th[t].e = HTTPException(500, "Gemini API key not configured")
            /\ th[t].enh = NoBytes
            /\ th[t].reply = NoReply

\* The endpoint after the service answered with a block reason and an image
\* part: the call raised the 400 error and no bytes were returned.
C20_Witness ==
  /\ program = "api"
  /\ th[EP].pc = "responded"
  /\ th[EP].reply # NoReply
  /\ th[EP].reply.block_reason = "SAFETY" /\ HasImagePart(th[EP].reply.parts)
  /\ th[EP].e = HTTPException(400, "Image generation blocked by API. Reason: SAFETY")
  /\ th[EP].enh = NoBytes
  /\ ~IsImage(response.content)

\* ------------------------------------------------------------------------
\* C21: paths, files and "ERROR:" results after a run
\* ------------------------------------------------------------------------
\* C21: after a run, for every row: a result that does not start with "ERROR:"
\* is the row's path under output/<batchID>/ and a file exists at exactly that
\* path; a result that starts with "ERROR:" is the message of the row's failed
\* directory creation (nothing was fetched then) or of its failed fallback
\* write; and a row whose fetch or enhancement failed, with no failed
\* file-system operation, has its path, not an "ERROR:" string.
C21_PathsAndErrors ==
  Done =>
    \A i \in Rows :
      /\ ~IsError(output[i])
           => /\ output[i] = ExpectedPath(table[i])
              /\ StartsWith(output[i], "output/" \o table[i].batchID \o "/")
              /\ output[i] \in DOMAIN files
      /\ IsError(output[i])
           => \/ /\ output[i] = "ERROR: [Errno 13] Permission denied: 'output/"
                                  \o table[i].batchID \o "'"
                 /\ hist[i].fetch = "none" /\ hist[i].written = 0
              \/ /\ output[i] = "ERROR: [Errno 28] No space left on device: '"
                                  \o ExpectedPath(table[i]) \o "'"
                 /\ hist[i].e # NoExc /\ hist[i].written = 0
      /\ ((FetchThrew(i) \/ hist[i].enhance = "raised") /\ hist[i].boundary = NoExc)
           => /\ ~IsError(output[i])
              /\ hist[i].written = 1

\* A finished run of two rows: the first row's fetch failed and its result is
\* its path, with a file there; the second row's fallback write failed and its
\* result is the "ERROR:" string.
C21_Witness ==
  /\ Done /\ N = 2 /\ PathOf(1) # PathOf(2)
  /\ FetchThrew(1) /\ output[1] = PathOf(1) /\ output[1] \in DOMAIN files
  /\ IsError(output[2]) /\ hist[2].boundary.type = "OSError" /\ hist[2].e # NoExc

\* ------------------------------------------------------------------------
\* C22: POST /generate-enhanced-aerial-view
\* ------------------------------------------------------------------------
\* The messages of the failures of the two steps, as the endpoint reports them.
EndpointFailures ==
  { "500: Mapbox access token not configured",
    "500: Failed to fetch map image: Not Authorized",
    "Connection aborted",
    "500: Gemini API key not configured",
    "400: Image generation blocked by API. Reason: SAFETY",
    "500: Failed to generate enhanced aerial view: 503 Service Unavailable" }

\* C22: the endpoint has the enhancement service called (or answered) only
\* while it holds the image of a successful fetch; it answers 200 exactly when
\* no step raised, and then with the bytes the enhancement step returned for
\* an answer without block reason; and it answers every failure of either
\* step (missing credential, non-200 status, transport error, missing key,
\* content-safety block, service error) with status 500 and the failure's
\* message.
C22_EndpointStatus ==
  program = "api" =>
    /\ (th[EP].pc = "gen_wait" \/ th[EP].reply # NoReply)
         => /\ IsImage(th[EP].sat)
            /\ th[EP].sat = MapboxContent(request.latitude, request.longitude,
                                          request.zoom, request.width, request.height)
    /\ th[EP].pc = "responded" =>
         /\ response.status_code \in {200, 500}
         /\ response.status_code = 200 <=> th[EP].e = NoExc
         /\ response.status_code = 200
              => /\ IsImage(th[EP].sat)
                 /\ th[EP].reply # NoReply
                 /\ ~th[EP].reply.fails /\ th[EP].reply.block_reason = ""
                 /\ response.content = th[EP].enh
                 /\ response.content \in
                      {th[EP].sat, GeminiContent(th[EP].sat, request.year, request.altitude)}
         /\ response.status_code = 500
              => /\ response.content = StrExc(th[EP].e)
                 /\ response.content \in EndpointFailures
                 /\ ~IsImage(response.content)
    /\ th[EP].pc # "responded" => response = NoResponse

\* The endpoint after a successful fetch with no API key configured: the
\* failure of the second step is answered with status 500.
C22_Witness ==
  /\ program = "api" /\ ~gemini_api_key
  /\ th[EP].pc = "responded"
  /\ IsImage(th[EP].sat)
  /\ response = [status_code |-> 500, content |-> "500: Gemini API key not configured"]

====
